---- MODULE Spec2Model ----
(***************************************************************************)
(* Care-recipient onboarding and deletion workflow of the management       *)
(* interface: CareRecipientForm (forms.py), ManagementAPIClient            *)
(* (client.py), and the admin handlers CareRecipientAdmin.delete_queryset  *)
(* and CareProviderLocationAdmin.import_care_recipients (admin.py).        *)
(*                                                                         *)
(* A handler is split only where it talks to the database after an        *)
(* earlier read: validation of a row (form.errors) and its insert          *)
(* (form.save()) are two steps, so that two requests can both pass the     *)
(* duplicate pre-check before either persists.  Spec runs one request at   *)
(* a time over all inputs; SpecRace runs imports and deletions             *)
(* concurrently, one request per slot of Procs.                            *)
(*                                                                         *)
(* Strings the code transforms are sequences of one-character strings.     *)
(***************************************************************************)
EXTENDS Integers, Sequences, FiniteSets, TLC

(* ------------------------------ bounds -------------------------------- *)

\* number of concurrent request slots
NumProcs == 2
\* number of distinct provider reference ids the inputs draw from
NumRefs == 2
\* number of gateway create_subscription calls explored
MaxSubs == 2
\* SETTINGS.CSV_IMPORT_MAX_LINES (configured externally)
CSV_IMPORT_MAX_LINES == 2

(* ------------------------- program constants -------------------------- *)

GivenNameMaxLength == 64
FamilyNameMaxLength == 64
NhsNumberMaxLength == 12
ErrorStatusFloor == 400

Procs == 1..NumProcs
Refs == 1..NumRefs
Locations == {"L1", "L2"}

(* ------------------------------ strings ------------------------------- *)

Whitespace == {" ", "\t"}

\* str.split(): the maximal runs of non-whitespace characters, in order
RECURSIVE SplitAcc(_, _, _)
SplitAcc(s, cur, acc) ==
    IF s = <<>>
    THEN IF cur = <<>> THEN acc ELSE Append(acc, cur)
    ELSE IF Head(s) \in Whitespace
         THEN SplitAcc(Tail(s), <<>>, IF cur = <<>> THEN acc ELSE Append(acc, cur))
         ELSE SplitAcc(Tail(s), Append(cur, Head(s)), acc)

\* (variant) the string is not split at its whitespace
Split_whole(s) == <<s>>

Split(s) == SplitAcc(s, <<>>, <<>>)

\* "".join(tokens)
RECURSIVE Join(_)
Join(tokens) == IF tokens = <<>> THEN <<>> ELSE Head(tokens) \o Join(Tail(tokens))

\* str.strip(), applied by forms.CharField (strip=True) before validation
RECURSIVE LStrip(_)
LStrip(s) == IF s # <<>> /\ Head(s) \in Whitespace THEN LStrip(Tail(s)) ELSE s

RECURSIVE RStrip(_)
RStrip(s) ==
    IF s # <<>> /\ s[Len(s)] \in Whitespace THEN RStrip(SubSeq(s, 1, Len(s) - 1)) ELSE s

Strip(s) == RStrip(LStrip(s))

\* a string of n copies of the character c
Repeat(c, n) == [i \in 1..n |-> c]

(* ------------------------------ inputs -------------------------------- *)

\* raw nhs_number submissions: "11", "1 1", a blank one and one that is a
\* character longer than the field allows
RawNhsNumbers ==
    { <<"1", "1">>, <<"1", " ", "1">>, <<" ">>, Repeat("1", NhsNumberMaxLength + 1) }

\* raw given_name submissions: "J  P"
RawGivenNames == { <<"J", " ", " ", "P">> }

RawFamilyNames == { <<"D">> }

\* raw birth_date submissions: a day written in one of the formats
\* forms.DateField accepts ("iso" %Y-%m-%d, "us" %m/%d/%Y) or unparseable text
RawBirthDates ==
    { [fmt |-> "iso", day |-> 1], [fmt |-> "us", day |-> 1],
      [fmt |-> "iso", day |-> 2], [fmt |-> "text", day |-> 0] }

\* the data a CareRecipientForm is constructed with
FormData ==
    [ care_provider_location : Locations,
      provider_reference_id : Refs,
      given_name : RawGivenNames,
      family_name : RawFamilyNames,
      nhs_number : RawNhsNumbers,
      birth_date : RawBirthDates ]

\* values of the environment variable STUPIDLY_HOBBLE_SECURITY ("unset": absent)
EnvValues == { "unset", "", "1", "true", "I_AM_AN_IDIOT_YES_I_REALLY_MEAN_IT" }

\* subscription ids and primary keys are positive; 0 stands for None
NoId == 0

(* -------------------------- identifier hasher ------------------------- *)

\* scrypt(...).hex(): deterministic, and taken to be collision free; the
\* result records the work factor, the salt and the data it was derived from
HighSecurityHash(salt, data) == [n |-> 32768, salt |-> salt, data |-> data]

NoSecurityHash(salt, data) == [n |-> 16, salt |-> salt, data |-> data]

\* str(date): the ISO form of a parsed date
DateStr(d) == [fmt |-> "iso", day |-> d]

\* (variant) any non-empty value of the variable selects the fast hasher
_generate_nhs_number_hash_if_set(environ, nhs_number, birth_date) ==
    IF environ \notin {"unset", ""}
    THEN NoSecurityHash(DateStr(birth_date), nhs_number)
    ELSE HighSecurityHash(DateStr(birth_date), nhs_number)

_generate_nhs_number_hash(environ, nhs_number, birth_date) ==
    IF environ = "I_AM_AN_IDIOT_YES_I_REALLY_MEAN_IT"
    THEN NoSecurityHash(DateStr(birth_date), nhs_number)
    ELSE HighSecurityHash(DateStr(birth_date), nhs_number)

(* --------------------- subscription gateway client -------------------- *)

\* what the gateway answers to POST /subscription
CreateResponses ==
    { [status |-> 201, body |-> "none", header |-> "uuid"],
      [status |-> 201, body |-> "none", header |-> "missing"],
      [status |-> 201, body |-> "none", header |-> "not_uuid"],
      [status |-> 400, body |-> "outcome", header |-> "missing"],
      [status |-> 400, body |-> "not_json", header |-> "missing"],
      [status |-> 400, body |-> "no_issue", header |-> "missing"] }

\* the outcome of a call: a returned value, or a raised exception
Returned(v) == [kind |-> "return", value |-> v, exc |-> "none", message |-> "none"]
Raised(type, msg) == [kind |-> "raise", value |-> NoId, exc |-> type, message |-> msg]

\* ManagementAPIClient.create_subscription, given the response to its POST
\* and the id the gateway put into X-Subscription-Id
create_subscription(resp, id) ==
    IF resp.status >= ErrorStatusFloor
    THEN CASE resp.body = "not_json" -> Raised("JSONDecodeError", "none")
           [] resp.body = "no_issue" -> Raised("pydantic.ValidationError", "none")
           [] OTHER -> Raised("ManagementAPIClientError", "diagnostics")
    ELSE CASE resp.header = "missing" -> Raised("TypeError", "none")
           [] resp.header = "not_uuid" -> Raised("ValueError", "none")
           [] OTHER -> Returned(id)

\* what a DELETE of a subscription can end in
DeleteOutcomes == { Returned(NoId), Raised("ManagementAPIClientError", "diagnostics") }

(* ------------------------- CareRecipientForm -------------------------- *)

Required == "This field is required."
TooLong == "Ensure this value has at most the allowed number of characters."
InvalidDate == "Enter a valid date."
NoError == "none"

\* forms.CharField(max_length, required=True).clean
CharFieldClean(raw, max_length) ==
    LET v == Strip(raw) IN
    [ value |-> v,
      error |-> IF v = <<>> THEN Required
                ELSE IF Len(v) > max_length THEN TooLong ELSE NoError ]

\* forms.DateField(required=True).clean: the parsed day, 0 when there is none
DateFieldClean(raw) ==
    IF raw.fmt \in {"iso", "us"}
    THEN [value |-> raw.day, error |-> NoError]
    ELSE [value |-> 0, error |-> InvalidDate]

\* an exception instance
Exc(type, text, field, ref) == [type |-> type, text |-> text, field |-> field, ref |-> ref]

NoExc == Exc("none", "none", "none", NoId)

NoHash == [n |-> 0, salt |-> DateStr(0), data |-> <<>>]

\* BaseForm._clean_fields: the errors of the declared fields, in field order
FieldErrors(data) ==
    LET given == CharFieldClean(data.given_name, GivenNameMaxLength)
        family == CharFieldClean(data.family_name, FamilyNameMaxLength)
        nhs == CharFieldClean(data.nhs_number, NhsNumberMaxLength)
        birth == DateFieldClean(data.birth_date)
        all == << [field |-> "given_name", message |-> given.error],
                  [field |-> "family_name", message |-> family.error],
                  [field |-> "nhs_number", message |-> nhs.error],
                  [field |-> "birth_date", message |-> birth.error] >>
    IN SelectSeq(all, LAMBDA e : e.message # NoError)

\* (variant) clean() carries on although a field has failed
CleanReturnsEarly_never(errors) == FALSE

\* forms.py line 75: clean() gives up when a field has failed
CleanReturnsEarly(errors) == errors # <<>>

\* (variant) the duplicate pre-check finds nothing
already_existing_care_recipient_none(database, hash) == {}

\* forms.py lines 82-85: the records that carry this hash
already_existing_care_recipient(database, hash) ==
    { r \in database : r.nhs_number_hash = hash }

\* (variant) the client's domain error is passed on as it is
_create_subscription_unconverted(resp, id) == create_subscription(resp, id)

\* CareRecipientForm._create_subscription: ManagementAPIClientError becomes
\* a ValidationError carrying str(ex); any other exception propagates
_create_subscription(resp, id) ==
    LET r == create_subscription(resp, id) IN
    IF r.kind = "raise" /\ r.exc = "ManagementAPIClientError"
    THEN Raised("ValidationError", r.message)
    ELSE r

\* the state of an unbound form
NoForm ==
    [ bound |-> FALSE,
      provider_reference_id |-> 0,
      care_provider_location |-> "none",
      errors |-> <<>>,
      non_field_errors |-> <<>>,
      nhs_number |-> <<>>,
      birth_date |-> 0,
      given_name |-> <<>>,
      family_name |-> <<>>,
      nhs_number_hash |-> NoHash,
      subscription_id |-> NoId,
      trace |-> <<>>,
      posts |-> 0,
      raised |-> NoExc ]

DuplicateText == "Care recipient with this NHS number already exists in the database"
UniqueText == "Care recipient with this Provider reference id already exists."

\* ModelForm._post_clean -> validate_unique, which runs once clean() has
\* reached super().clean() (forms.py line 95): a unique model field of the
\* form whose value is taken fails validation
validate_unique(database, ref) ==
    IF \E r \in database : r.provider_reference_id = ref
    THEN << [field |-> "provider_reference_id", message |-> UniqueText] >>
    ELSE <<>>

\* BaseForm.full_clean for a CareRecipientForm bound to data: _clean_fields,
\* then CareRecipientForm.clean, then _post_clean.  resp is the gateway's
\* answer should clean() reach create_subscription, id the id in its header;
\* posts counts the POSTs this form has sent.
full_clean(form, data, environ, database, resp, id) ==
    LET fe == FieldErrors(data)
        base == [ NoForm EXCEPT !.bound = TRUE,
                                !.posts = form.posts,
                                !.provider_reference_id = data.provider_reference_id,
                                !.care_provider_location = data.care_provider_location,
                                !.errors = fe,
                                !.trace = <<"clean_fields">> ]
        nhs == Join(Split(CharFieldClean(data.nhs_number, NhsNumberMaxLength).value))
        birth == DateFieldClean(data.birth_date).value
        hash == _generate_nhs_number_hash(environ, nhs, birth)
        existing == already_existing_care_recipient(database, hash)
        hashed == [ base EXCEPT !.nhs_number = nhs,
                                !.birth_date = birth,
                                !.nhs_number_hash = hash,
                                !.trace = base.trace \o <<"hash", "filter">> ]
        first == CHOOSE r \in existing : TRUE
        given == Split(CharFieldClean(data.given_name, GivenNameMaxLength).value)
        sub == _create_subscription(resp, id)
        called == [ hashed EXCEPT !.given_name = given,
                                  !.family_name =
                                      CharFieldClean(data.family_name, FamilyNameMaxLength).value,
                                  !.posts = form.posts + 1,
                                  !.trace = hashed.trace \o <<"create_subscription">> ]
    IN  IF CleanReturnsEarly(fe) THEN base
        ELSE IF existing # {}
        THEN [ hashed EXCEPT
                 !.non_field_errors =
                     << Exc("ValidationError", DuplicateText, "none",
                            first.provider_reference_id) >>,
                 !.errors = fe \o << [field |-> "__all__", message |-> DuplicateText] >> ]
        ELSE IF sub.kind = "raise" /\ sub.exc = "ValidationError"
        THEN [ called EXCEPT
                 !.non_field_errors =
                     << Exc("ValidationError", sub.message, "none", NoId) >>,
                 !.errors = fe \o << [field |-> "__all__", message |-> sub.message] >> ]
        ELSE IF sub.kind = "raise"
        THEN [ called EXCEPT !.raised = Exc(sub.exc, sub.message, "none", NoId) ]
        ELSE [ called EXCEPT
                 !.subscription_id = sub.value,
                 !.errors = fe \o validate_unique(database, data.provider_reference_id),
                 !.trace = called.trace \o <<"validate_unique">> ]

\* (variant) errors that validates again on every consultation
errors_uncached(form, data, environ, database, resp, id) ==
    full_clean(form, data, environ, database, resp, id)

\* BaseForm.errors: full_clean runs only while _errors is None, that is,
\* the first time the errors of a bound form are consulted
errors(form, data, environ, database, resp, id) ==
    IF form.bound THEN form ELSE full_clean(form, data, environ, database, resp, id)

(* ------------------------------ storage ------------------------------- *)

\* the unique columns of CareRecipient that a new row collides on
Collisions(database, rec) ==
    { c \in {"nhs_number_hash", "provider_reference_id"} :
        \E r \in database : r[c] = rec[c] }

\* (variant) every record is stored under the first location
save_first_location(form, pk) ==
    [ pk |-> pk,
      care_provider_location |-> "L1",
      provider_reference_id |-> form.provider_reference_id,
      nhs_number_hash |-> form.nhs_number_hash,
      subscription_id |-> form.subscription_id ]

\* CareRecipientForm.save: the instance that super().save() inserts
save(form, pk) ==
    [ pk |-> pk,
      care_provider_location |-> form.care_provider_location,
      provider_reference_id |-> form.provider_reference_id,
      nhs_number_hash |-> form.nhs_number_hash,
      subscription_id |-> form.subscription_id ]

(* ------------------------------- state -------------------------------- *)

VARIABLES
    environ,    \* os.environ["STUPIDLY_HOBBLE_SECURITY"]
    database,   \* the persisted CareRecipient rows
    nextPk,     \* the primary key of the next inserted row
    gateway,    \* the Patient bodies the gateway created a subscription for; the
                \* subscription id is the position in this sequence
    live,       \* the ids of the subscriptions not deleted at the gateway
    req         \* the requests in progress, one per slot

vars == <<environ, database, nextPk, gateway, live, req>>

NoLabel == [ref |-> 0, line |-> 0]

Idle ==
    [ op |-> "idle", pc |-> "idle", location |-> "none", nrows |-> 0, counter |-> 0,
      form |-> NoForm, created |-> <<>>, errors |-> <<>>, queryset |-> <<>>,
      results |-> <<>>, messages |-> <<>> ]

Init ==
    /\ environ \in EnvValues
    /\ database = {}
    /\ nextPk = 1
    /\ gateway = <<>>
    /\ live = {}
    /\ req = [p \in Procs |-> Idle]

\* the Patient resource create_subscription posts (client.py lines 27-57)
Body(form) ==
    [ nhs_number |-> form.nhs_number,
      birthDate |-> DateStr(form.birth_date),
      given |-> form.given_name,
      family |-> form.family_name ]

\* the gateway after the POSTs of a form: each POST answered with a status
\* below 400 created one subscription
GatewayAfter(gw, form, resp) ==
    IF resp.status < ErrorStatusFloor
    THEN gw \o [i \in 1..form.posts |-> Body(form)]
    ELSE gw

\* (variant) the subscriptions a form creates are not kept at the gateway
LiveAfter_unchanged(gw, lv, form, resp) == lv

LiveAfter(gw, lv, form, resp) ==
    lv \cup ((1..Len(GatewayAfter(gw, form, resp))) \ (1..Len(gw)))

(* ---------------------------- bulk import ----------------------------- *)

\* a column name of a header row, in upper or in lower case
Column(name, upper) == [name |-> name, upper |-> upper]

\* (variant) the column names are compared as they are written
Lower_identity(col) == col

\* str.lower() of a column name
Lower(col) == [col EXCEPT !.upper = FALSE]

\* _CareRecipientRecord.__annotations__
Annotations ==
    { Column(n, FALSE) :
        n \in {"provider_reference_id", "given_name", "family_name", "nhs_number",
               "birth_date"} }

\* header rows of uploaded files: the annotated columns in lower and in upper
\* case, the column set with PROVIDER_REFERENCE, and a header lacking a column
Headers ==
    { Annotations,
      { Column(c.name, TRUE) : c \in Annotations },
      { Column(n, TRUE) :
          n \in {"provider_reference", "given_name", "family_name", "nhs_number",
                 "birth_date"} },
      { Column(n, FALSE) : n \in {"provider_reference_id", "nhs_number"} } }

\* what a POST to import_care_recipients can carry
Uploads ==
    [ kind : {"csv"}, header : Headers, nrows : 0..(CSV_IMPORT_MAX_LINES + 1) ]
    \cup [ kind : {"missing", "binary"}, header : {Annotations}, nrows : {0} ]

_is_csv_in_request_files(upload) == upload.kind # "missing"

\* the keys of csv_data[0]: the lower-cased header
_is_csv_column_set_valid(upload) == Annotations = { Lower(c) : c \in upload.header }

\* (variant) a file with exactly the maximum number of rows is refused
_is_csv_line_count_valid_strict(upload) == upload.nrows < CSV_IMPORT_MAX_LINES

_is_csv_line_count_valid(upload) == upload.nrows <= CSV_IMPORT_MAX_LINES

Message(level, text, label, n) == [level |-> level, text |-> text, label |-> label, n |-> n]


\* the message import_care_recipients emits for a pair (admin.py lines 189-201)
ErrorMessage(pair) ==
    IF pair.error.type = "IntegrityError"
    THEN Message("WARNING", "already exists", pair.label, 0)
    ELSE Message("ERROR", pair.error.text, pair.label, 0)

\* import_care_recipients after the loop (admin.py lines 185-203): the summary
ImportSummary(r) ==
    [ r EXCEPT !.pc = "done",
               !.messages =
                   << Message("INFO", "FILE_IMPORTED_SUCCESSFULLY", NoLabel,
                              Len(r.created)) >>
                   \o [ i \in 1..Len(r.errors) |-> ErrorMessage(r.errors[i]) ] ]

\* the end of a turn of the loop of _bulk_create_care_recipients: the next
\* row, or the return to import_care_recipients, which emits the summary
NextRow(r) ==
    LET n == [ r EXCEPT !.counter = r.counter + 1 ] IN
    IF n.counter < n.nrows THEN [ n EXCEPT !.pc = "validate" ] ELSE ImportSummary(n)

\* an exception that leaves the view: the response is a server error and
\* the locals of the handler are gone
ServerError(r, exc) ==
    [ Idle EXCEPT !.op = r.op, !.pc = "error500", !.form.raised = exc ]

\* import_care_recipients up to the call of _bulk_create_care_recipients
\* (admin.py lines 146-179): the structural checks
StructuralChecks(loc, upload) ==
    LET started == [ Idle EXCEPT !.op = "import", !.location = loc,
                                 !.nrows = upload.nrows ]
        rejected(text, n) ==
            [ started EXCEPT !.pc = "done",
                             !.messages = << Message("ERROR", text, NoLabel, n) >> ]
    IN  IF ~ _is_csv_in_request_files(upload)
        THEN rejected("INVALID_OR_EMPTY_FILE", 0)
        ELSE IF upload.kind = "binary"
        THEN rejected("FILE_CORRUPTED_OR_BINARY", 0)
        ELSE IF upload.nrows = 0
        THEN ServerError(started, Exc("IndexError", "none", "none", NoId))
        ELSE IF ~ _is_csv_column_set_valid(upload)
        THEN rejected("INVALID_COLUMN_SET", 0)
        ELSE IF ~ _is_csv_line_count_valid(upload)
        THEN rejected("LINE_COUNT_EXCEEDED", CSV_IMPORT_MAX_LINES)
        ELSE [ started EXCEPT !.pc = "validate" ]

\* a POST to import_care_recipients: the request after the structural checks
StartImport(p, loc, upload) ==
    /\ req[p].op = "idle"
    /\ req' = [ req EXCEPT ![p] = StructuralChecks(loc, upload) ]
    /\ UNCHANGED <<environ, database, nextPk, gateway, live>>

\* the (row label, error) pairs a form with errors adds (admin.py lines 241-259)
RowErrors(form, label) ==
    [ i \in 1..Len(form.non_field_errors) |->
        [label |-> label, error |-> form.non_field_errors[i]] ]
    \o
    [ i \in 1..Len(form.errors) |->
        [ label |-> label,
          error |-> Exc("ValidationError", form.errors[i].message,
                        form.errors[i].field, NoId) ] ]

\* one turn of the loop of _bulk_create_care_recipients up to `continue` or
\* to the try block (admin.py lines 234-260): the form is built and its
\* errors are consulted, which validates it
ValidateRow(p, data, responses) ==
    /\ req[p].op = "import" /\ req[p].pc = "validate"
    /\ data.care_provider_location = req[p].location
    /\ \E resp \in responses :
         LET r == req[p]
             id == Len(gateway) + 1
             f1 == errors(NoForm, data, environ, database, resp, id)
             form == errors(f1, data, environ, database, resp, id + f1.posts)
             label == [ref |-> data.provider_reference_id, line |-> r.counter]
         IN /\ gateway' = GatewayAfter(gateway, form, resp)
            /\ Len(gateway') <= MaxSubs
            /\ live' = LiveAfter(gateway, live, form, resp)
            /\ req' = [ req EXCEPT ![p] =
                 IF form.raised # NoExc
                 THEN ServerError(r, form.raised)
                 ELSE IF form.errors # <<>>
                 THEN NextRow([ r EXCEPT !.form = form,
                                         !.errors = r.errors \o RowErrors(form, label) ])
                 ELSE [ r EXCEPT !.form = form, !.pc = "save" ] ]
    /\ UNCHANGED <<environ, database, nextPk>>

\* (variant) the loop recovers from validation errors only
BulkCatches_validation_only(exc) == exc.type = "ValidationError"

\* admin.py line 265: the exceptions of form.save() the loop recovers from
BulkCatches(exc) == exc.type = "IntegrityError"

\* the try block of the loop (admin.py lines 262-271): form.save()
SaveRow(p) ==
    /\ req[p].op = "import" /\ req[p].pc = "save"
    /\ LET r == req[p]
           rec == save(r.form, nextPk)
           label == [ref |-> r.form.provider_reference_id, line |-> r.counter]
       IN IF Collisions(database, rec) = {}
          THEN /\ database' = database \cup {rec}
               /\ nextPk' = nextPk + 1
               /\ req' = [ req EXCEPT ![p] =
                    NextRow([ r EXCEPT !.created = Append(r.created, rec),
                                       !.form.trace = Append(r.form.trace, "save") ]) ]
          ELSE /\ \E c \in Collisions(database, rec) :
                    LET exc == Exc("IntegrityError", "UNIQUE constraint failed", c, NoId)
                    IN req' = [ req EXCEPT ![p] =
                         IF BulkCatches(exc)
                         THEN NextRow([ r EXCEPT !.errors =
                                  Append(r.errors, [label |-> label, error |-> exc]) ])
                         ELSE ServerError(r, exc) ]
               /\ UNCHANGED <<database, nextPk>>
    /\ UNCHANGED <<environ, gateway, live>>

(* ------------------------ single submission --------------------------- *)

\* the add view of CareRecipientAdmin up to save_model: form.is_valid()
\* validates the submitted form, and a form with errors is shown again
Submit(p, data, responses) ==
    /\ req[p].op = "idle"
    /\ \E resp \in responses :
         LET id == Len(gateway) + 1
             f1 == errors(NoForm, data, environ, database, resp, id)
             form == errors(f1, data, environ, database, resp, id + f1.posts)
             r == [ Idle EXCEPT !.op = "submit", !.form = form,
                                !.location = data.care_provider_location ]
         IN /\ gateway' = GatewayAfter(gateway, form, resp)
            /\ Len(gateway') <= MaxSubs
            /\ live' = LiveAfter(gateway, live, form, resp)
            /\ req' = [ req EXCEPT ![p] =
                 IF form.raised # NoExc THEN ServerError(r, form.raised)
                 ELSE IF form.errors # <<>> THEN [ r EXCEPT !.pc = "done" ]
                 ELSE [ r EXCEPT !.pc = "save" ] ]
    /\ UNCHANGED <<environ, database, nextPk>>

\* CareRecipientAdmin.save_model (admin.py lines 68-70): the insert; nothing
\* in the add view catches an IntegrityError
SaveModel(p) ==
    /\ req[p].op = "submit" /\ req[p].pc = "save"
    /\ LET r == req[p]
           rec == save(r.form, nextPk)
       IN IF Collisions(database, rec) = {}
          THEN /\ database' = database \cup {rec}
               /\ nextPk' = nextPk + 1
               /\ req' = [ req EXCEPT ![p] =
                    [ r EXCEPT !.created = <<rec>>,
                               !.form.trace = Append(r.form.trace, "save"),
                               !.pc = "done" ] ]
          ELSE /\ \E c \in Collisions(database, rec) :
                    req' = [ req EXCEPT ![p] =
                      ServerError(r, Exc("IntegrityError", "UNIQUE constraint failed", c,
                                         NoId)) ]
               /\ UNCHANGED <<database, nextPk>>
    /\ UNCHANGED <<environ, gateway, live>>

(* ------------------------------ deletion ------------------------------ *)

\* the rows of a queryset in the order they are iterated: by primary key
RECURSIVE ByPk(_)
ByPk(S) ==
    IF S = {} THEN <<>>
    ELSE LET m == CHOOSE r \in S : \A q \in S : r.pk <= q.pk
         IN <<m>> \o ByPk(S \ {m})

\* delete_queryset / delete_model is handed the records to delete
StartDelete(p, S) ==
    /\ req[p].op = "idle"
    /\ S # {} /\ S \subseteq database
    /\   req' = [ req EXCEPT ![p] =
                    [ Idle EXCEPT !.op = "delete", !.pc = "delete", !.queryset = ByPk(S) ] ]
    /\ UNCHANGED <<environ, database, nextPk, gateway, live>>

\* a message text is a sequence of fragments, cut where the patterns of
\* message_user end; str.startswith and str.endswith
StartsWith(text, prefix) ==
    Len(text) >= Len(prefix) /\ SubSeq(text, 1, Len(prefix)) = prefix

EndsWith(text, suffix) ==
    Len(text) >= Len(suffix)
    /\ SubSeq(text, Len(text) - Len(suffix) + 1, Len(text)) = suffix

\* str(care_recipient): the string form Model.__str__ gives a record
Str(label) == << "CareRecipient object (", ToString(label.line), ")" >>

\* the text of a message handed to CareRecipientAdmin.message_user: the two
\* messages of delete_queryset (admin.py lines 81 and 87) and the two
\* notifications the admin framework sends after a deletion
MessageText(msg) ==
    CASE msg.level = "INFO" -> Str(msg.label) \o << " was deleted successfully" >>
      [] msg.level = "ERROR" ->
           << "Could not delete " >> \o Str(msg.label) \o << ": ", msg.text >>
      [] msg.level = "SUCCESS" /\ msg.label = NoLabel ->
           << "Successfully deleted", " ", ToString(msg.n), " care recipients." >>
      [] OTHER ->
           << "The", " care recipient \"" >> \o Str(msg.label)
              \o << "\" ", "was deleted successfully." >>

\* the notifications the admin framework hands to message_user once a
\* deletion of the records of queryset is over: that of the bulk action,
\* and that of the delete view of a single record
GenericNotifications(queryset) ==
    { Message("SUCCESS", "Successfully deleted", NoLabel, Len(queryset)) }
    \cup { Message("SUCCESS", "was deleted successfully.",
                   [ref |-> queryset[i].provider_reference_id, line |-> queryset[i].pk], 0) :
             i \in { j \in 1..Len(queryset) : Len(queryset) = 1 } }

\* admin.py lines 102-106: the messages message_user does not pass on
Suppressed(text) ==
    \/ StartsWith(text, << "Successfully deleted" >>)
    \/ StartsWith(text, << "The" >>) /\ EndsWith(text, << "was deleted successfully." >>)

\* (variant) every message is passed on
message_user_all(messages, msg) == Append(messages, msg)

\* CareRecipientAdmin.message_user: the messages of the request after the call
message_user(messages, msg) ==
    IF Suppressed(MessageText(msg)) THEN messages ELSE Append(messages, msg)

\* (variant) the local delete no longer depends on the gateway call
DeletesLocally_always(outcome) == TRUE

\* admin.py lines 75-78: care_recipient.delete() is reached when
\* delete_subscription returned
DeletesLocally(outcome) == outcome.kind = "return"

\* (variant) the loop of delete_queryset recovers from nothing
DeleteCatches_none(outcome) == FALSE

\* admin.py line 84: the exceptions the loop of delete_queryset recovers from
DeleteCatches(outcome) == outcome.exc = "ManagementAPIClientError"

\* what care_recipient.delete() can end in: the row is removed, or the
\* database raises an error
LocalRemovals == {"removed", "DatabaseError"}

\* one turn of the loop of delete_queryset (admin.py lines 73-89), given the
\* outcome of delete_subscription and that of care_recipient.delete(); the
\* text of the error message is the part the gateway supplied, str(ex).
\* After the last turn the admin framework hands its own notification of
\* the deletion to message_user.
DeleteTurn(p, outcome, removal) ==
    /\ req[p].op = "delete" /\ req[p].pc = "delete"
    /\ \E generic \in GenericNotifications(req[p].queryset) :
         LET r == req[p]
             rec == r.queryset[r.counter + 1]
             label == [ref |-> rec.provider_reference_id, line |-> rec.pk]
             next == IF r.counter + 1 < Len(r.queryset) THEN "delete" ELSE "done"
             logged == [ r EXCEPT !.counter = r.counter + 1,
                                  !.results = Append(r.results, outcome) ]
             notified(messages) ==
                 IF next = "done" THEN message_user(messages, generic) ELSE messages
         IN /\ live' = IF outcome.kind = "return" THEN live \ {rec.subscription_id} ELSE live
            /\ database' = IF DeletesLocally(outcome) /\ removal = "removed"
                           THEN { d \in database : d.pk # rec.pk }
                           ELSE database
            /\ req' = [ req EXCEPT ![p] =
                 IF DeletesLocally(outcome) /\ removal # "removed"
                 THEN ServerError(r, Exc(removal, "none", "none", NoId))
                 ELSE IF outcome.kind = "return"
                 THEN [ logged EXCEPT
                          !.pc = next,
                          !.messages = notified(message_user(r.messages,
                              Message("INFO", "was deleted successfully", label, 0))) ]
                 ELSE IF DeleteCatches(outcome)
                 THEN [ logged EXCEPT
                          !.pc = next,
                          !.messages = notified(message_user(r.messages,
                              Message("ERROR", outcome.message, label, 0))) ]
                 ELSE ServerError(r, Exc(outcome.exc, outcome.message, "none", NoId)) ]
    /\ UNCHANGED <<environ, nextPk, gateway>>

\* a turn of the loop while the database is available
DeleteRecord(p, outcome) == DeleteTurn(p, outcome, "removed")

(* ------------------------------ requests ------------------------------ *)

\* the response is sent and the slot is free for the next request
Respond(p) ==
    /\ req[p].pc \in {"done", "error500"}
    /\ req' = [req EXCEPT ![p] = Idle]
    /\ UNCHANGED <<environ, database, nextPk, gateway, live>>

\* the responses a validation can draw from: the gateway's answers when
\* validation of the data sends a POST, none otherwise
NoResponse == [status |-> 0, body |-> "none", header |-> "missing"]

ResponsesTo(data) ==
    IF full_clean(NoForm, data, environ, database, NoResponse, NoId).posts = 0
    THEN {NoResponse}
    ELSE CreateResponses

\* one request at a time, in slot 1
Next ==
    \/ \E loc \in Locations, upload \in Uploads : StartImport(1, loc, upload)
    \/ \E data \in FormData : ValidateRow(1, data, ResponsesTo(data))
    \/ SaveRow(1)
    \/ \E data \in FormData : Submit(1, data, ResponsesTo(data))
    \/ SaveModel(1)
    \/ \E S \in SUBSET database : StartDelete(1, S)
    \/ \E outcome \in DeleteOutcomes : DeleteRecord(1, outcome)
    \/ Respond(1)

\* the deployment default: STUPIDLY_HOBBLE_SECURITY is not set
InitDefault == Init /\ environ = "unset"

Spec == InitDefault /\ [][Next]_vars

(* ---------------------- any hashing environment ----------------------- *)

\* single submissions of well-formed or malformed data, under every value
\* of the environment variable
NextEnv ==
    \/ \E data \in FormData : Submit(1, data, ResponsesTo(data))
    \/ SaveModel(1)
    \/ Respond(1)

SpecEnv == Init /\ [][NextEnv]_vars

(* ------------------------ concurrent requests ------------------------- *)

\* the uploads of the concurrent imports: well-formed files; slot 1 uploads
\* up to the line limit, the other slots one row
RaceUploads(p) ==
    { u \in Uploads :
        /\ u.kind = "csv" /\ u.header = Annotations
        /\ u.nrows >= 1
        /\ u.nrows <= (IF p = 1 THEN CSV_IMPORT_MAX_LINES ELSE 1) }

\* their rows: rows that pass field validation
RaceData == { d \in FormData : FieldErrors(d) = <<>> /\ d.birth_date.fmt = "iso" }

\* the gateway creates every subscription it is asked for
RaceResponses == { r \in CreateResponses : r.status < ErrorStatusFloor /\ r.header = "uuid" }

\* imports into one location and deletions, running concurrently in all slots
NextRace ==
    \E p \in Procs :
        \/ \E upload \in RaceUploads(p) : StartImport(p, "L1", upload)
        \/ \E data \in RaceData : ValidateRow(p, data, RaceResponses)
        \/ SaveRow(p)
        \/ \E S \in SUBSET database : StartDelete(p, S)
        \/ \E outcome \in DeleteOutcomes : DeleteRecord(p, outcome)
        \/ Respond(p)

SpecRace == InitDefault /\ [][NextRace]_vars

(* ------------------------- database failures -------------------------- *)

\* imports, single submissions and deletions, one request at a time, where
\* the removal of a row can fail in the database
NextFault ==
    \/ \E upload \in RaceUploads(1) : StartImport(1, "L1", upload)
    \/ \E data \in RaceData : ValidateRow(1, data, RaceResponses)
    \/ SaveRow(1)
    \/ \E data \in RaceData : Submit(1, data, RaceResponses)
    \/ SaveModel(1)
    \/ \E S \in SUBSET database : StartDelete(1, S)
    \/ \E outcome \in DeleteOutcomes, removal \in LocalRemovals :
         DeleteTurn(1, outcome, removal)
    \/ Respond(1)

SpecFault == InitDefault /\ [][NextFault]_vars

(* ------------------------------ properties ---------------------------- *)

Last(seq) == seq[Len(seq)]

\* the position of step x in a trace, 0 when it is not there
Pos(trace, x) ==
    IF \E i \in 1..Len(trace) : trace[i] = x
    THEN CHOOSE i \in 1..Len(trace) : trace[i] = x
    ELSE 0

\* the form was rejected as a duplicate of the record with reference ref
HasDuplicateError(form, ref) ==
    \E i \in 1..Len(form.non_field_errors) :
        /\ form.non_field_errors[i].text = DuplicateText
        /\ form.non_field_errors[i].ref = ref

\* C1: in a turn of the deletion loop the record stays persisted unless the
\* gateway's delete_subscription for it returned: a record is removed only
\* after a successful gateway call, and a failed call leaves it in place.
C1_DeleteOnlyAfterGateway ==
    [][ \A p \in Procs :
          (req[p].op = "delete" /\ req[p].pc = "delete" /\ req'[p] # req[p])
          => LET rec == req[p].queryset[req[p].counter + 1] IN
             \/ /\ req'[p].pc # "error500"
                /\ Last(req'[p].results).kind = "return"
             \/ /\ rec \in database => rec \in database'
                /\ database' = database ]_vars

\* C1 witness: a deletion of two records in which one gateway call failed and
\* its record is still there, and one succeeded and its record is gone
C1_Witness ==
    \E p \in Procs :
        /\ req[p].op = "delete" /\ req[p].pc = "done"
        /\ \E i, j \in 1..Len(req[p].results) :
             /\ req[p].results[i].kind = "raise"
             /\ req[p].queryset[i] \in database
             /\ req[p].results[j].kind = "return"
             /\ req[p].queryset[j] \notin database

\* a step in which request p validates a form
ValidationStep(p) ==
    /\ req[p].pc \in {"idle", "validate"}
    /\ req'[p] # req[p]
    /\ req'[p].form.bound

\* a step in which the import in slot p runs form.save()
SaveStep(p) ==
    /\ req[p].op = "import" /\ req[p].pc = "save"
    /\ req'[p] # req[p]

FormatErrors == {Required, TooLong, InvalidDate}

HasFormatError(form) ==
    \E i \in 1..Len(form.errors) : form.errors[i].message \in FormatErrors

\* the persisted records that carry the raw identifier nhs
WithIdentifier(nhs) == { r \in database : r.nhs_number_hash.data = nhs }

\* C2: every persisted record carries a subscription id that the gateway
\* issued for a POST of that record's identifier and birth date, no two
\* records share one, a form sends at most one POST however often its errors
\* are consulted, a form that passed the duplicate check has sent exactly
\* one, and the POST comes after field validation and the duplicate check
\* and before the insert.
C2_SubscriptionBeforePersist ==
    /\ \A r \in database :
         /\ r.subscription_id # NoId
         /\ r.subscription_id \in 1..Len(gateway)
         /\ gateway[r.subscription_id].nhs_number = r.nhs_number_hash.data
         /\ gateway[r.subscription_id].birthDate = r.nhs_number_hash.salt
    /\ \A r1, r2 \in database : r1.subscription_id = r2.subscription_id => r1 = r2
    /\ \A p \in Procs :
         LET f == req[p].form IN
         f.bound =>
           /\ f.posts <= 1
           /\ f.posts = 1 <=> Pos(f.trace, "create_subscription") # 0
           /\ Pos(f.trace, "create_subscription") # 0 =>
                /\ f.trace[1] = "clean_fields"
                /\ ~ HasFormatError(f)
                /\ Pos(f.trace, "filter") # 0
                /\ Pos(f.trace, "filter") < Pos(f.trace, "create_subscription")
           /\ Pos(f.trace, "save") # 0 =>
                /\ Pos(f.trace, "create_subscription") # 0
                /\ Pos(f.trace, "create_subscription") < Pos(f.trace, "save")
           /\ (Pos(f.trace, "filter") # 0 /\ f.non_field_errors = <<>>) => f.posts = 1

\* C2 witness: a form whose errors were consulted twice has been saved after a
\* single POST, and its record carries the id the gateway issued
C2_Witness ==
    \E p \in Procs :
        /\ req[p].form.bound
        /\ Pos(req[p].form.trace, "save") # 0
        /\ req[p].form.posts = 1
        /\ \E r \in database :
             /\ r.subscription_id = req[p].form.subscription_id
             /\ r.subscription_id # NoId
             /\ r \in { req[p].created[i] : i \in 1..Len(req[p].created) }

\* C3: at most one persisted record per raw national identifier, whatever
\* the birth dates submitted with it.
C3_OneRecordPerIdentifier ==
    \A r1, r2 \in database :
        r1.nhs_number_hash.data = r2.nhs_number_hash.data => r1 = r2

\* C4: a single submission whose national identifier is that of a record
\* persisted earlier is rejected with a duplicate error naming that record's
\* provider_reference_id, does not go on to be saved, and leaves exactly one
\* record with the identifier.
C4_SecondSubmissionRejected ==
    \A p \in Procs :
        LET f == req[p].form
            mine == { req[p].created[i] : i \in 1..Len(req[p].created) }
            earlier == WithIdentifier(f.nhs_number) \ mine
        IN (req[p].op = "submit" /\ f.bound /\ Pos(f.trace, "filter") # 0
              /\ earlier # {})
           => /\ \E r \in earlier : HasDuplicateError(f, r.provider_reference_id)
              /\ req[p].pc # "save"
              /\ Cardinality(WithIdentifier(f.nhs_number)) = 1

\* C5: when an import runs form.save() for a row, at most one record with
\* the row's hash is persisted afterwards; if another request persisted that
\* hash after the row passed its pre-check, exactly one record carries the
\* hash afterwards, the insert adds nothing, the
\* failure is recorded for the row as an IntegrityError, which the summary
\* reports as "already exists", and the loop goes on to the next row or to
\* the summary.
C5_RaceLoserIsRecovered ==
    [][ \A p \in Procs :
          SaveStep(p) =>
            LET h == req[p].form.nhs_number_hash
                label == [ref |-> req[p].form.provider_reference_id,
                          line |-> req[p].counter]
            IN /\ Cardinality({ r \in database' : r.nhs_number_hash = h }) <= 1
               /\ (\E r \in database : r.nhs_number_hash = h) =>
                    /\ Cardinality({ r \in database' : r.nhs_number_hash = h }) = 1
                    /\ database' = database
                    /\ req'[p].op = "import"
                    /\ req'[p].pc \in {"validate", "done"}
                    /\ req'[p].counter = req[p].counter + 1
                    /\ req'[p].created = req[p].created
                    /\ Len(req'[p].errors) = Len(req[p].errors) + 1
                    /\ Last(req'[p].errors).error.type = "IntegrityError"
                    /\ Last(req'[p].errors).label = label
                    /\ (req'[p].pc = "validate") <=> (req'[p].counter < req[p].nrows)
                    /\ req'[p].pc = "done" =>
                         Last(req'[p].messages)
                           = Message("WARNING", "already exists", label, 0) ]_vars

\* C5 witness: a two-row import lost the race on its first row, recorded it
\* as an IntegrityError on the hash, and went on to process its second row,
\* while the import in another slot created the record with that hash
C5_Witness ==
    \E p, q \in Procs :
        /\ p # q
        /\ req[p].op = "import" /\ req[p].pc = "done" /\ req[p].nrows = 2
        /\ req[p].counter = 2
        /\ req[p].created = <<>>
        /\ req[p].errors[1].error.type = "IntegrityError"
        /\ req[p].errors[1].error.field = "nhs_number_hash"
        /\ req[p].errors[1].label.line = 0
        /\ \E i \in 2..Len(req[p].errors) : req[p].errors[i].label.line = 1
        /\ req[q].op = "import" /\ Len(req[q].created) = 1
        /\ req[q].created[1] \in database
        /\ Cardinality(database) = 1

\* C6: a validation that finds a persisted record with the form's hash sends
\* no POST: the gateway's subscriptions are unchanged, and the form carries
\* the duplicate error naming that record.
C6_NoSubscriptionForDuplicate ==
    [][ \A p \in Procs :
          LET f == req'[p].form
              found == { r \in database : r.nhs_number_hash = f.nhs_number_hash }
          IN (ValidationStep(p) /\ Pos(f.trace, "filter") # 0 /\ found # {})
             => /\ gateway' = gateway
                /\ live' = live
                /\ f.posts = 0
                /\ Pos(f.trace, "create_subscription") = 0
                /\ \E r \in found : HasDuplicateError(f, r.provider_reference_id) ]_vars

\* C6 witness: with a subscription at the gateway, a form was rejected as the
\* duplicate of a persisted record without a POST
C6_Witness ==
    \E p \in Procs :
        /\ req[p].form.bound
        /\ req[p].form.posts = 0
        /\ Len(gateway) = 1
        /\ \E r \in database :
             /\ r.nhs_number_hash = req[p].form.nhs_number_hash
             /\ HasDuplicateError(req[p].form, r.provider_reference_id)

\* C7: a validation in which a field fails its format check does nothing
\* after _clean_fields: no hash is computed, no POST is sent, the gateway and
\* the database are unchanged and the request does not go on to save.
C7_FormatErrorStopsValidation ==
    [][ \A p \in Procs :
          (ValidationStep(p) /\ HasFormatError(req'[p].form))
          => /\ req'[p].form.trace = <<"clean_fields">>
             /\ req'[p].form.nhs_number_hash = NoHash
             /\ req'[p].form.posts = 0
             /\ gateway' = gateway
             /\ database' = database
             /\ req'[p].pc # "save"
             /\ req'[p].created = req[p].created ]_vars

\* C7 witness: with a record persisted, a row with an over-long identifier
\* and an unparseable date stopped after field validation
C7_Witness ==
    \E p \in Procs :
        /\ req[p].op = "import"
        /\ database # {}
        /\ req[p].form.trace = <<"clean_fields">>
        /\ \E i, j \in 1..Len(req[p].form.errors) :
             /\ req[p].form.errors[i].message = TooLong
             /\ req[p].form.errors[j].message = InvalidDate

\* C8: an import that reached its summary and whose errors all belong to one
\* row has created all the other rows and holds exactly one (label, error)
\* pair.
C8_OnePairForTheInvalidRow ==
    \A p \in Procs :
        LET r == req[p]
            lines == { r.errors[i].label.line : i \in 1..Len(r.errors) }
        IN (r.op = "import" /\ r.pc = "done" /\ Cardinality(lines) = 1)
           => /\ Len(r.created) = r.nrows - 1
              /\ Len(r.errors) = 1

\* C9: a deletion never ends in a server error, and one that is done and in
\* which exactly one gateway call failed has made as many calls as it was
\* handed records, has kept exactly the record whose call failed and has
\* removed the others.
C9_OneFailureOthersDeleted ==
    \A p \in Procs :
        LET r == req[p]
            failed == { i \in 1..Len(r.results) : r.results[i].kind = "raise" }
        IN r.op = "delete" =>
             /\ r.pc # "error500"
             /\ (r.pc = "done" /\ Cardinality(failed) = 1) =>
                  /\ Len(r.results) = Len(r.queryset)
                  /\ \A i \in 1..Len(r.queryset) :
                       (i \in failed) <=> (r.queryset[i] \in database)
                  /\ Cardinality({ i \in 1..Len(r.queryset) :
                                     r.queryset[i] \notin database })
                       = Len(r.queryset) - 1

\* C9 witness: of two records the first one's gateway call failed and the
\* second was still deleted
C9_Witness ==
    \E p \in Procs :
        /\ req[p].op = "delete" /\ req[p].pc = "done"
        /\ Len(req[p].queryset) = 2
        /\ req[p].results[1].kind = "raise"
        /\ req[p].results[2].kind = "return"
        /\ req[p].queryset[1] \in database
        /\ req[p].queryset[2] \notin database

\* C10: an import or a deletion ends in a server error only through the
\* up-front structural checks (the column check of a file without data rows):
\* no failure of a row's or a record's processing leaves the handler.
C10_NoRowFailureEscapes ==
    \A p \in Procs :
        (req[p].op \in {"import", "delete"} /\ req[p].pc = "error500")
        => req[p].form.raised.type = "IndexError"

\* the record-level error _create_subscription raises for a gateway failure
GatewayError == Exc("ValidationError", "diagnostics", "none", NoId)

C12_OnlyDomainErrors ==
    \A p \in Procs :
        req[p].form.raised.type
            \notin {"JSONDecodeError", "pydantic.ValidationError", "TypeError", "ValueError"}

\* the pair reports a duplicate national identifier: the pre-check's error
\* of clean(), or the storage constraint on the hash
IsDuplicateIdentifier(pair) ==
    \/ pair.error.text = DuplicateText
    \/ pair.error.type = "IntegrityError" /\ pair.error.field = "nhs_number_hash"

\* C13: in the summary of an import every pair that reports a duplicate
\* identifier, found by the pre-check or by the storage constraint, is a
\* WARNING "already exists", and every other pair is an ERROR.
C13_DuplicatesAreWarnings ==
    \A p \in Procs :
        LET r == req[p] IN
        (r.op = "import" /\ r.pc = "done" /\ r.errors # <<>>)
        => /\ Len(r.messages) = Len(r.errors) + 1
           /\ \A i \in 1..Len(r.errors) :
                IF IsDuplicateIdentifier(r.errors[i])
                THEN /\ r.messages[i + 1].level = "WARNING"
                     /\ r.messages[i + 1].text = "already exists"
                ELSE r.messages[i + 1].level = "ERROR"

\* C14: in the summary of an import every pair about a provider_reference_id
\* that is already taken is the storage layer's "already exists" outcome, a
\* WARNING, and not a validation error; the import reaches its summary.
C14_ReferenceCollisionIsAlreadyExists ==
    \A p \in Procs :
        LET r == req[p] IN
        (r.op = "import" /\ r.pc = "done")
        => \A i \in 1..Len(r.errors) :
             r.errors[i].error.field = "provider_reference_id"
             => /\ r.errors[i].error.type = "IntegrityError"
                /\ r.messages[i + 1]
                     = Message("WARNING", "already exists", r.errors[i].label, 0)

\* a step in which slot p receives an upload that passes through the
\* structural checks as the upload u into location loc would
ImportStep(p, loc, u) ==
    /\ req[p].op = "idle"
    /\ req'[p].op = "import"
    /\ req'[p] = StructuralChecks(loc, u)

\* the header of a readable file does not name the annotated columns
WrongHeader(u) ==
    /\ u.kind = "csv"
    /\ { Lower(c) : c \in u.header } # Annotations

\* C15: the import of a readable file with a wrong header, whatever its
\* number of data rows, ends at once with the single error
\* INVALID_COLUMN_SET, creates nothing and calls the gateway for nothing.
C15_WrongHeaderIsOneStructuralError ==
    [][ \A p \in Procs : \A loc \in Locations : \A u \in Uploads :
          (ImportStep(p, loc, u) /\ WrongHeader(u))
          => /\ req'[p].pc = "done"
             /\ req'[p].messages = << Message("ERROR", "INVALID_COLUMN_SET", NoLabel, 0) >>
             /\ req'[p].created = <<>>
             /\ database' = database
             /\ gateway' = gateway ]_vars

\* C16: the import of a readable file with more data rows than
\* CSV_IMPORT_MAX_LINES ends in the structural checks with an error (with
\* LINE_COUNT_EXCEEDED when the header is right), creates nothing, calls the
\* gateway for nothing and never validates a row; a file with the right
\* header and exactly CSV_IMPORT_MAX_LINES rows goes on to row processing.
C16_LineCountCeiling ==
    [][ /\ \A p \in Procs : \A loc \in Locations : \A u \in Uploads :
             (ImportStep(p, loc, u) /\ u.kind = "csv")
             => /\ u.nrows > CSV_IMPORT_MAX_LINES
                   => /\ req'[p].pc = "done"
                      /\ req'[p].created = <<>>
                      /\ Len(req'[p].messages) = 1
                      /\ req'[p].messages[1].level = "ERROR"
                      /\ ~ WrongHeader(u)
                           => req'[p].messages
                                = << Message("ERROR", "LINE_COUNT_EXCEEDED", NoLabel,
                                             CSV_IMPORT_MAX_LINES) >>
                      /\ database' = database
                      /\ gateway' = gateway
                /\ (u.nrows = CSV_IMPORT_MAX_LINES /\ u.nrows > 0 /\ ~ WrongHeader(u))
                   => /\ req'[p].pc = "validate"
                      /\ req'[p].messages = <<>>
        /\ \A p \in Procs :
             (req[p].op = "import" /\ req[p].nrows > CSV_IMPORT_MAX_LINES)
             => req'[p] \in {req[p], Idle} ]_vars

\* C16 witness: with a record persisted, an import of one row more than the
\* maximum was refused with LINE_COUNT_EXCEEDED
C16_Witness ==
    \E p \in Procs :
        /\ req[p].op = "import" /\ req[p].pc = "done"
        /\ req[p].nrows = CSV_IMPORT_MAX_LINES + 1
        /\ req[p].messages
             = << Message("ERROR", "LINE_COUNT_EXCEEDED", NoLabel, CSV_IMPORT_MAX_LINES) >>
        /\ req[p].created = <<>>
        /\ database # {}

\* a header made of the given column names, all in upper or all in lower case
HeaderOf(names, upper) == { Column(n, upper) : n \in names }

\* the file has between one data row and the maximum
RowCountInRange(u) == u.nrows >= 1 /\ u.nrows <= CSV_IMPORT_MAX_LINES

RemoveWhitespace(s) == SelectSeq(s, LAMBDA c : c \notin Whitespace)

\* a gateway answer that creates the subscription
Created == [status |-> 201, body |-> "none", header |-> "uuid"]

\* the hash the configured hasher gives the identifier of the submitted data
\* with all whitespace removed, salted with the submitted birth date
HashOfSubmission(data) ==
    _generate_nhs_number_hash(environ, RemoveWhitespace(data.nhs_number),
                              data.birth_date.day)

\* C18: validation of any submission that gets as far as the hash computes
\* the hash of the identifier without whitespace and the birth date; the
\* record of a saved single submission carries the hash of its form, which
\* is that of a valid submission with its reference id, and has no column for
\* the identifier, the names or the birth date.
C18_PersistedHashOfNormalisedIdentifier ==
    /\ \A data \in FormData :
         LET f == full_clean(NoForm, data, environ, database, Created, 1) IN
         f.nhs_number_hash # NoHash => f.nhs_number_hash = HashOfSubmission(data)
    /\ \A p \in Procs :
         (req[p].op = "submit" /\ req[p].created # <<>>)
         => LET rec == req[p].created[1] IN
            /\ rec \in database
            /\ rec.nhs_number_hash = req[p].form.nhs_number_hash
            /\ rec.nhs_number_hash # NoHash
            /\ DOMAIN rec = {"pk", "care_provider_location", "provider_reference_id",
                             "nhs_number_hash", "subscription_id"}
            /\ \E data \in FormData :
                 /\ FieldErrors(data) = <<>>
                 /\ data.provider_reference_id = rec.provider_reference_id
                 /\ data.care_provider_location = rec.care_provider_location
                 /\ rec.nhs_number_hash = HashOfSubmission(data)

\* C18 witness: a single submission was saved with the hash of "11" and the
\* second birth date while another record is persisted
C18_Witness ==
    \E p \in Procs :
        /\ req[p].op = "submit" /\ req[p].created # <<>>
        /\ req[p].created[1].nhs_number_hash.data = <<"1", "1">>
        /\ req[p].created[1].nhs_number_hash.salt = DateStr(2)
        /\ Cardinality(database) = 2

\* the work factors of the two configurations
FastWorkFactor == NoSecurityHash(DateStr(0), <<>>).n
SecureWorkFactor == HighSecurityHash(DateStr(0), <<>>).n

\* the hash was made by the fast configuration exactly when the environment
\* variable holds the sentinel, and by the secure one otherwise
ConfiguredFor(hash) ==
    IF environ = "I_AM_AN_IDIOT_YES_I_REALLY_MEAN_IT"
    THEN hash.n = FastWorkFactor
    ELSE hash.n = SecureWorkFactor

\* C19: every hash a form computed and every persisted hash was made by the
\* fast configuration only if STUPIDLY_HOBBLE_SECURITY is exactly the
\* sentinel; when the variable is unset, empty, "1" or "true" it was made by
\* the secure configuration, whose work factor is the greater.
C19_FastHashOnlyOnSentinel ==
    /\ FastWorkFactor < SecureWorkFactor
    /\ \A r \in database : ConfiguredFor(r.nhs_number_hash)
    /\ \A p \in Procs :
         req[p].form.nhs_number_hash # NoHash => ConfiguredFor(req[p].form.nhs_number_hash)

\* C19 witness: with the variable set to "true" a record was persisted with a
\* hash of the secure configuration
C19_Witness ==
    /\ environ = "true"
    /\ \E r \in database : r.nhs_number_hash.n = SecureWorkFactor

\* C20: a deletion has emitted one message per record it has handled, M when
\* it is done with M records: for a record that was removed the INFO message
\* of its success, for a record that was retained an ERROR message with the
\* text of the gateway's error, each labelled with its record.
C20_OneMessagePerDeletedRecord ==
    \A p \in Procs :
        LET r == req[p] IN
        r.op = "delete" =>
          /\ Len(r.messages) = r.counter
          /\ Len(r.results) = r.counter
          /\ r.pc = "done" => Len(r.messages) = Len(r.queryset)
          /\ \A i \in 1..Len(r.messages) :
               LET rec == r.queryset[i] IN
               /\ r.messages[i].label
                    = [ref |-> rec.provider_reference_id, line |-> rec.pk]
               /\ IF rec \notin database
                  THEN /\ r.messages[i].level = "INFO"
                       /\ r.messages[i].text = "was deleted successfully"
                  ELSE /\ r.messages[i].level = "ERROR"
                       /\ r.results[i].kind = "raise"
                       /\ r.messages[i].text = r.results[i].message

\* C20 witness: a deletion of two records removed the first and retained
\* the second, with an INFO and an ERROR message
C20_Witness ==
    \E p \in Procs :
        /\ req[p].op = "delete" /\ req[p].pc = "done"
        /\ Len(req[p].queryset) = 2
        /\ Len(req[p].messages) = 2
        /\ req[p].messages[1].level = "INFO"
        /\ req[p].messages[2].level = "ERROR"
        /\ req[p].messages[2].text = "diagnostics"
        /\ req[p].queryset[1] \notin database
        /\ req[p].queryset[2] \in database

\* the message delete_queryset produces for the i-th record of a deletion
OutcomeMessage(r, i) ==
    LET rec == r.queryset[i]
        label == [ref |-> rec.provider_reference_id, line |-> rec.pk]
    IN IF r.results[i].kind = "return"
       THEN Message("INFO", "was deleted successfully", label, 0)
       ELSE Message("ERROR", r.results[i].message, label, 0)

\* C21: message_user drops the framework's notifications of a deletion
\* (texts starting with "Successfully deleted", or starting with "The" and
\* ending with "was deleted successfully.") and passes on the per-record
\* messages of delete_queryset as they are: the messages of a deletion are
\* at every moment exactly the outcome messages of the records handled so
\* far, in order, also once the framework has sent its notification.
C21_GenericNotificationsDropped ==
    /\ \A S \in SUBSET database : S # {} =>
         \A g \in GenericNotifications(ByPk(S)) :
             /\ Suppressed(MessageText(g))
             /\ \A p \in Procs : message_user(req[p].messages, g) = req[p].messages
    /\ \A rec \in database : \A outcome \in DeleteOutcomes :
         LET r == [ Idle EXCEPT !.queryset = <<rec>>, !.results = <<outcome>> ]
             m == OutcomeMessage(r, 1)
         IN /\ ~ Suppressed(MessageText(m))
            /\ \A p \in Procs : message_user(req[p].messages, m) = Append(req[p].messages, m)
    /\ \A p \in Procs :
         LET r == req[p] IN
         r.op = "delete" =>
           /\ r.messages = [ i \in 1..r.counter |-> OutcomeMessage(r, i) ]
           /\ \A i \in 1..Len(r.messages) : ~ Suppressed(MessageText(r.messages[i]))

\* C21 witness: the deletion of a single record through the delete view is
\* over, the gateway call failed, and the only message is the error for the
\* record: the notification of its successful deletion was dropped
C21_Witness ==
    \E p \in Procs :
        /\ req[p].op = "delete" /\ req[p].pc = "done"
        /\ Len(req[p].queryset) = 1
        /\ req[p].results[1].kind = "raise"
        /\ req[p].messages = << OutcomeMessage(req[p], 1) >>
        /\ req[p].messages[1].level = "ERROR"
        /\ Cardinality(GenericNotifications(req[p].queryset)) = 2

\* C22: when form.save() of a row fails on a unique column after the row's
\* subscription was created, nothing is deleted at the gateway: the set of
\* subscriptions there is unchanged, the row's subscription is still among
\* them, and no persisted record carries its id.
C22_FailedSaveLeavesSubscription ==
    [][ \A p \in Procs :
          (SaveStep(p) /\ Collisions(database, save(req[p].form, nextPk)) # {})
          => LET id == req[p].form.subscription_id IN
             /\ id # NoId
             /\ database' = database
             /\ gateway' = gateway
             /\ live' = live
             /\ id \in live'
             /\ \A r \in database' : r.subscription_id # id ]_vars

\* C22 witness: an import created a subscription for a row and then lost the
\* race on the row's provider_reference_id; the subscription is at the
\* gateway and no record carries it
C22_Witness ==
    \E p \in Procs :
        /\ req[p].op = "import" /\ req[p].errors # <<>>
        /\ Last(req[p].errors).error.type = "IntegrityError"
        /\ Last(req[p].errors).error.field = "provider_reference_id"
        /\ Last(req[p].errors).label.ref = req[p].form.provider_reference_id
        /\ req[p].form.subscription_id \in live
        /\ \A r \in database : r.subscription_id # req[p].form.subscription_id
        /\ \E r \in database : r.provider_reference_id = req[p].form.provider_reference_id

\* C23: whenever no request is in progress, every persisted record carries
\* the id of a subscription that was created at the gateway and has not been
\* deleted there, also after deletions whose gateway call or whose local
\* removal failed.
C23_RecordsReferToLiveSubscriptions ==
    (\A p \in Procs : req[p].op = "idle")
    => \A r \in database :
         /\ r.subscription_id \in 1..Len(gateway)
         /\ r.subscription_id \in live

\* the records the import in slot p has created so far
CreatedBy(r) == { r.created[i] : i \in 1..Len(r.created) }

\* C24: when an import validates a row whose identifier and birth date are
\* those of a record an earlier row of the same file created, that record is
\* persisted and is the only one with the hash, the validation sends no POST
\* and leaves the gateway as it is, the row is rejected as a duplicate naming
\* that record's provider_reference_id, and it creates nothing.
C24_LaterRowIsDuplicateOfEarlierRow ==
    [][ \A p \in Procs :
          LET f == req'[p].form
              same == { c \in CreatedBy(req[p]) : c.nhs_number_hash = f.nhs_number_hash }
          IN (req[p].op = "import" /\ ValidationStep(p) /\ same # {})
             => /\ same \subseteq database
                /\ Cardinality({ r \in database' : r.nhs_number_hash = f.nhs_number_hash }) = 1
                /\ f.posts = 0
                /\ Pos(f.trace, "create_subscription") = 0
                /\ gateway' = gateway
                /\ live' = live
                /\ database' = database
                /\ req'[p].pc # "save"
                /\ req'[p].created = req[p].created
                /\ \E c \in same :
                     /\ HasDuplicateError(f, c.provider_reference_id)
                     /\ \E i \in 1..Len(req'[p].errors) :
                          /\ req'[p].errors[i].label.line = req[p].counter
                          /\ req'[p].errors[i].error.text = DuplicateText
                          /\ req'[p].errors[i].error.ref = c.provider_reference_id ]_vars

\* C24 witness: a two-row import into an empty database created its first
\* row with one subscription and rejected its second row, which has another
\* reference id, as a duplicate of the first
C24_Witness ==
    \E p \in Procs :
        /\ req[p].op = "import" /\ req[p].pc = "done" /\ req[p].nrows = 2
        /\ Len(req[p].created) = 1
        /\ database = { req[p].created[1] }
        /\ Len(gateway) = 1
        /\ \E i \in 1..Len(req[p].errors) :
             /\ req[p].errors[i].label.line = 1
             /\ req[p].errors[i].label.ref # req[p].created[1].provider_reference_id
             /\ req[p].errors[i].error.text = DuplicateText
             /\ req[p].errors[i].error.ref = req[p].created[1].provider_reference_id

\* the lines of the file for which the import holds a (row label, error) pair
ErrorLines(r) == { r.errors[i].label.line : i \in 1..Len(r.errors) }

\* C25: an import that passed the structural checks never ends without its
\* summary; of the rows it has processed each one either added one record to
\* the created collection or contributed (row label, error) pairs, never
\* both and never neither; every step of it adds as many records to the
\* database as to the created collection; and the summary reports the number
\* of records in the created collection.
C25_EachRowHasOneOutcome ==
    /\ [] \A p \in Procs :
            LET r == req[p] IN
            r.op = "import" =>
              /\ r.pc = "error500" => r.form.raised.type = "IndexError"
              /\ r.pc \in {"validate", "save"} =>
                   /\ ErrorLines(r) \subseteq 0..(r.counter - 1)
                   /\ Len(r.created) + Cardinality(ErrorLines(r)) = r.counter
                   /\ Cardinality(CreatedBy(r)) = Len(r.created)
              /\ (r.pc = "done" /\ r.messages[1].level = "INFO") =>
                   /\ r.counter = r.nrows
                   /\ ErrorLines(r) \subseteq 0..(r.nrows - 1)
                   /\ Len(r.created) + Cardinality(ErrorLines(r)) = r.nrows
                   /\ Cardinality(CreatedBy(r)) = Len(r.created)
                   /\ r.messages[1].n = Len(r.created)
    /\ [][ \A p \in Procs :
             (req[p].op = "import" /\ req'[p] # req[p] /\ req'[p].op = "import"
                /\ req'[p].pc # "error500")
             => /\ Len(req'[p].created) >= Len(req[p].created)
                /\ Cardinality(database') - Cardinality(database)
                     = Len(req'[p].created) - Len(req[p].created)
                /\ CreatedBy(req'[p]) \ CreatedBy(req[p]) = database' \ database ]_vars

\* the records handed to the deletion r, and their subscriptions
Passed(r) == { r.queryset[i] : i \in 1..Len(r.queryset) }

\* C26: a step of an import into a location removes or changes no persisted
\* record and adds only records of that location; a step of a deletion adds
\* no record, removes only records that were handed to it, and deletes at
\* the gateway only subscriptions of records handed to it.
C26_FrameOfImportAndDeletion ==
    [][ \A p \in Procs :
          /\ (req'[p] # req[p] /\ "import" \in {req[p].op, req'[p].op})
             => /\ database \subseteq database'
                /\ \A r \in database' \ database :
                     /\ req[p].op = "import"
                     /\ r.care_provider_location = req[p].location
                /\ live \subseteq live'
          /\ (req'[p] # req[p] /\ "delete" \in {req[p].op, req'[p].op})
             => /\ database' \subseteq database
                /\ database \ database' \subseteq Passed(req[p])
                /\ live' \subseteq live
                /\ live \ live' \subseteq { r.subscription_id : r \in Passed(req[p]) }
                /\ gateway' = gateway ]_vars

\* C26 witness: an import into L2 has created a record of L2 while a record
\* of L1, persisted before, is still there with its subscription
C26_Witness ==
    \E p \in Procs :
        /\ req[p].op = "import" /\ req[p].location = "L2"
        /\ req[p].created # <<>>
        /\ req[p].created[1].care_provider_location = "L2"
        /\ \E r \in database \ CreatedBy(req[p]) :
             /\ r.care_provider_location = "L1"
             /\ r.subscription_id \in live

====
